---- MODULE Spec2Model ----
(***************************************************************************)
(* Rock-Paper-Scissors (src/main.py): the game engine inside RPSApp.       *)
(*                                                                         *)
(* The state is the fields RPSApp.__init__ creates that the game logic     *)
(* reads or writes; every action is one handler of the application, run    *)
(* to completion (Tk dispatches one callback at a time, and a modal        *)
(* messagebox holds the input grab until it is dismissed).                 *)
(*                                                                         *)
(* Outside the model: theme and colours, the shake and confetti            *)
(* animations, status_text, the CSV export (it only reads history) and     *)
(* the timestamp of a history record.  best_of is written only through     *)
(* _on_bestof_change and always holds an integer.                          *)
(***************************************************************************)
EXTENDS Integers, Sequences, FiniteSets, TLC

\* ---------------------------------------------------------------- bounds

\* Rounds accepted in one session (the length history may reach).
MaxRounds == 3

\* Values the best-of variable holds when _on_bestof_change runs from the
\* spinbox (from_=1, to=21): odd ones from its arrows, even ones typed in.
SpinboxValues == {1, 4, 7}

\* Values below the spinbox's range, for a direct call of _on_bestof_change.
UncheckedValues == {-2, 0}

\* Rounds accepted in one session when the random source is seeded.
MaxSeededRounds == 8

\* Arguments of play: the three moves and one unrecognised value.
UserChoices == {"Rock", "Paper", "Scissors", "Lizard"}

Difficulties == {"Adaptive", "Random"}

\* ------------------------------------------------------ program constants

CHOICES == <<"Rock", "Paper", "Scissors">>

Moves == {CHOICES[i] : i \in 1..Len(CHOICES)}

BEATS ==
    [c \in Moves |-> CASE c = "Rock" -> "Scissors"
                       [] c = "Paper" -> "Rock"
                       [] c = "Scissors" -> "Paper"]

InitBestOf == 5

WindowSize == 7

HistBoxSize == 10

HotStreak == 3

\* ------------------------------------------------------------------ state

VARIABLES
    difficulty,         \* self.difficulty: "Adaptive" | "Random"
    best_of,            \* self.best_of
    target_wins,        \* self.target_wins
    user_score,         \* self.user_score
    cpu_score,          \* self.cpu_score
    tie_count,          \* self.tie_count
    rounds,             \* self.rounds
    curr_streak,        \* self.curr_streak: > 0 user, < 0 cpu
    best_user_streak,   \* self.best_user_streak
    best_cpu_streak,    \* self.best_cpu_streak
    history,            \* self.history: records, oldest first
    user_recent,        \* self.user_recent: recent human choices
    achievements,       \* self.achievements
    hist_box,           \* self.hist_box: listbox rows, newest first
    call,               \* the handler invoked last and its argument
    unlock_shown,       \* "Achievement unlocked!" dialogs of the last round
    match_complete      \* "Match complete" dialog of the last round

matchVars == <<user_score, cpu_score, tie_count, rounds, curr_streak, hist_box>>

sessionVars ==
    <<best_user_streak, best_cpu_streak, history, user_recent, achievements>>

configVars == <<difficulty, best_of, target_wins>>

appVars == <<matchVars, sessionVars, configVars>>

dialogVars == <<unlock_shown, match_complete>>

vars == <<appVars, dialogVars, call>>

\* ---------------------------------------------------------------- helpers

MaxTakesLatest(a, b) == b

Max(a, b) == IF a >= b THEN a ELSE b

Abs(a) == IF a < 0 THEN -a ELSE a

NoDialog == [shown |-> FALSE, winner |-> "", you |-> 0, cpu |-> 0]

\* target_wins = (best_of // 2) + 1
TargetWins(v) == (v \div 2) + 1

\* if v % 2 == 0: v += 1
ForceOddDown(v) == IF v % 2 = 0 THEN v - 1 ELSE v

ForceOdd(v) == IF v % 2 = 0 THEN v + 1 ELSE v

\* _decide(user, cpu)
DecideSwapped(user, cpu) ==
    IF user = cpu THEN "Tie"
    ELSE IF BEATS[cpu] = user THEN "Win" ELSE "Lose"

Decide(user, cpu) ==
    IF user = cpu THEN "Tie"
    ELSE IF BEATS[user] = cpu THEN "Win" ELSE "Lose"

\* counts[c] after the loop over user_recent
Count(recent, c) == Cardinality({i \in 1..Len(recent) : recent[i] = c})

\* max(counts, key=counts.get): the first key, in CHOICES order, of the
\* largest count
PredictedLastOfLargest(recent) ==
    LET last == CHOOSE i \in 1..Len(CHOICES) :
            /\ \A j \in 1..Len(CHOICES) :
                   Count(recent, CHOICES[j]) <= Count(recent, CHOICES[i])
            /\ \A j \in (i + 1)..Len(CHOICES) :
                   Count(recent, CHOICES[j]) < Count(recent, CHOICES[i])
    IN  CHOICES[last]

Predicted(recent) ==
    LET first == CHOOSE i \in 1..Len(CHOICES) :
            /\ \A j \in 1..Len(CHOICES) :
                   Count(recent, CHOICES[j]) <= Count(recent, CHOICES[i])
            /\ \A j \in 1..(i - 1) :
                   Count(recent, CHOICES[j]) < Count(recent, CHOICES[i])
    IN  CHOICES[first]

\* _counter_to(choice): the first key of BEATS whose value is choice, and a
\* random choice when there is none
CounterTo(choice, fallback) ==
    LET ks == {i \in 1..Len(CHOICES) : BEATS[CHOICES[i]] = choice}
    IN  IF ks # {}
        THEN CHOICES[CHOOSE i \in ks : \A j \in ks : i <= j]
        ELSE fallback

\* _cpu_pick(): coin is random.random() < 0.7, pick and fallback are the
\* results of random.choice(CHOICES)
CpuPickIgnoresWindow(diff, recent, coin, pick, fallback) == pick

CpuPick(diff, recent, coin, pick, fallback) ==
    IF diff = "Random" \/ recent = <<>>
    THEN pick
    ELSE IF coin THEN CounterTo(Predicted(recent), fallback) ELSE pick

\* _cpu_pick(): every move the random source can make it return
CpuPicks(diff, recent) ==
    {CpuPick(diff, recent, coin, pick, fallback) :
        coin \in BOOLEAN, pick \in Moves, fallback \in Moves}

\* play: the three counters after a round with this result
UserScoreAfter(result, us) == IF result = "Win" THEN us + 1 ELSE us

CpuScoreAfter(result, cs) == IF result = "Lose" THEN cs + 1 ELSE cs

TieCountAfterDropped(result, tc) == tc

TieCountAfter(result, tc) == IF result = "Tie" THEN tc + 1 ELSE tc

\* play: the streak after a round with this result
StreakAfterNoFlip(result, streak) ==
    CASE result = "Win" -> streak + 1
      [] result = "Lose" -> streak - 1
      [] OTHER -> streak

StreakAfterTieResets(result, streak) ==
    CASE result = "Win" -> IF streak >= 0 THEN streak + 1 ELSE 1
      [] result = "Lose" -> IF streak <= 0 THEN streak - 1 ELSE -1
      [] OTHER -> 0

StreakAfter(result, streak) ==
    CASE result = "Win" -> IF streak >= 0 THEN streak + 1 ELSE 1
      [] result = "Lose" -> IF streak <= 0 THEN streak - 1 ELSE -1
      [] OTHER -> streak

\* play: user_recent after the append and the pop(0) past seven entries
WindowAfterDropsNewest(recent, user_choice) ==
    LET appended == Append(recent, user_choice)
    IN  IF Len(appended) > WindowSize
        THEN SubSeq(appended, 1, WindowSize)
        ELSE appended

WindowAfter(recent, user_choice) ==
    LET appended == Append(recent, user_choice)
    IN  IF Len(appended) > WindowSize THEN Tail(appended) ELSE appended

\* play: the listbox after insert(0, row) and the delete("end") past ten rows
HistBoxAfter(box, row) ==
    LET inserted == <<row>> \o box
    IN  IF Len(inserted) > HistBoxSize
        THEN SubSeq(inserted, 1, Len(inserted) - 1)
        ELSE inserted

\* play: self.history after the append of the round's record
HistoryAfterPrepended(h, rec) == <<rec>> \o h

HistoryAfter(h, rec) == Append(h, rec)

\* _unlock(name): the set afterwards, and the dialogs shown so far
UnlockSetReplaces(name, ach) == {name}

UnlockSet(name, ach) == ach \cup {name}

UnlockDialogs(name, ach, shown) ==
    IF name \in ach THEN shown ELSE Append(shown, name)

\* play: the match-winner check and the winner it names
MatchOverStrict(us, cs, tw) == us > tw \/ cs > tw

MatchOverUserOnly(us, cs, tw) == us >= tw

MatchOver(us, cs, tw) == us >= tw \/ cs >= tw

Winner(us, cs) == IF us > cs THEN "You" ELSE "Computer"

\* ------------------------------------------------------------------- Init

Init ==
    /\ difficulty = "Adaptive"
    /\ best_of = InitBestOf
    /\ target_wins = TargetWins(InitBestOf)
    /\ user_score = 0
    /\ cpu_score = 0
    /\ tie_count = 0
    /\ rounds = 0
    /\ curr_streak = 0
    /\ best_user_streak = 0
    /\ best_cpu_streak = 0
    /\ history = <<>>
    /\ user_recent = <<>>
    /\ achievements = {}
    /\ hist_box = <<>>
    /\ call = [op |-> "init", arg |-> ""]
    /\ unlock_shown = <<>>
    /\ match_complete = NoDialog

\* ---------------------------------------------------------------- actions

\* reset_match(): the assignments it makes
ResetKeepsStreak ==
    /\ user_score' = 0
    /\ cpu_score' = 0
    /\ tie_count' = 0
    /\ rounds' = 0
    /\ curr_streak' = curr_streak
    /\ hist_box' = <<>>

ResetFields ==
    /\ user_score' = 0
    /\ cpu_score' = 0
    /\ tie_count' = 0
    /\ rounds' = 0
    /\ curr_streak' = 0
    /\ hist_box' = <<>>

\* reset_match(), from the "Reset Match" button
ResetMatch ==
    /\ call' = [op |-> "reset_match", arg |-> ""]
    /\ ResetFields
    /\ UNCHANGED <<sessionVars, configVars>>
    /\ UNCHANGED dialogVars

\* new_match(), from the "New Match (N)" button and the n key
NewMatch ==
    /\ call' = [op |-> "new_match", arg |-> ""]
    /\ ResetFields
    /\ UNCHANGED <<sessionVars, configVars>>
    /\ UNCHANGED dialogVars

\* _on_bestof_change(), with the value n the spinbox variable holds
OnBestOfChange(n) ==
    /\ call' = [op |-> "bestof", arg |-> n]
    /\ best_of' = ForceOdd(n)
    /\ target_wins' = TargetWins(ForceOdd(n))
    /\ UNCHANGED <<matchVars, sessionVars, difficulty>>
    /\ UNCHANGED dialogVars

\* the difficulty OptionMenu writes self.difficulty
SetDifficulty(d) ==
    /\ call' = [op |-> "difficulty", arg |-> d]
    /\ difficulty' = d
    /\ UNCHANGED <<matchVars, sessionVars, best_of, target_wins>>
    /\ UNCHANGED dialogVars

\* play(user_choice) past the membership test, with the opponent's move
PlayRound(user_choice, cpu_choice) ==
    LET result == Decide(user_choice, cpu_choice)
        us == UserScoreAfter(result, user_score)
        cs == CpuScoreAfter(result, cpu_score)
        tc == TieCountAfter(result, tie_count)
        st == StreakAfter(result, curr_streak)
        rec == [user |-> user_choice, cpu |-> cpu_choice, result |-> result]
        ach1 == IF result = "Win"
                THEN UnlockSet("First Win", achievements)
                ELSE achievements
        shown1 == IF result = "Win"
                  THEN UnlockDialogs("First Win", achievements, <<>>)
                  ELSE <<>>
        hot == result = "Win" /\ st >= HotStreak
        ach2 == IF hot THEN UnlockSet("Hot Streak (3)", ach1) ELSE ach1
        shown2 == IF hot
                  THEN UnlockDialogs("Hot Streak (3)", ach1, shown1)
                  ELSE shown1
        over == MatchOver(us, cs, target_wins)
    IN  /\ best_user_streak' =
               IF result = "Win"
               THEN Max(best_user_streak, st) ELSE best_user_streak
        /\ best_cpu_streak' =
               IF result = "Lose"
               THEN Max(best_cpu_streak, Abs(st)) ELSE best_cpu_streak
        /\ user_recent' = WindowAfter(user_recent, user_choice)
        /\ history' = HistoryAfter(history, rec)
        /\ achievements' = ach2
        /\ unlock_shown' = shown2
        /\ IF over
           THEN /\ match_complete' =
                       [shown |-> TRUE, winner |-> Winner(us, cs),
                        you |-> us, cpu |-> cs]
                /\ ResetFields
           ELSE /\ match_complete' = NoDialog
                /\ user_score' = us
                /\ cpu_score' = cs
                /\ tie_count' = tc
                /\ rounds' = rounds + 1
                /\ curr_streak' = st
                /\ hist_box' = HistBoxAfter(hist_box, rec)
        /\ UNCHANGED configVars

\* play: the return on a choice that is not in CHOICES
RejectCountsRound ==
    /\ rounds' = rounds + 1
    /\ UNCHANGED <<user_score, cpu_score, tie_count, curr_streak, hist_box>>
    /\ UNCHANGED <<sessionVars, configVars, dialogVars>>

Reject == UNCHANGED <<appVars, dialogVars>>

\* play(user_choice), from a move button or the r, p, s keys
Play(user_choice) ==
    /\ call' = [op |-> "play", arg |-> user_choice]
    /\ IF user_choice \notin Moves
       THEN Reject
       ELSE /\ Len(history) < MaxRounds
            /\ \E cpu_choice \in CpuPicks(difficulty, user_recent) :
                   PlayRound(user_choice, cpu_choice)

\* The application: its handlers, with the spinbox's values for best-of.
Next ==
    \/ \E m \in UserChoices : Play(m)
    \/ ResetMatch
    \/ NewMatch
    \/ \E n \in SpinboxValues : OnBestOfChange(n)
    \/ \E d \in Difficulties : SetDifficulty(d)

Spec == Init /\ [][Next]_vars

\* The engine called directly: _on_bestof_change also runs on values the
\* spinbox would not deliver.
NextDirect ==
    \/ Next
    \/ \E n \in UncheckedValues : OnBestOfChange(n)

SpecDirect == Init /\ [][NextDirect]_vars

\* A seeded random source: random.random() < 0.7 on every call, and
\* random.choice(CHOICES) returns Rock.
SeedCoin == TRUE

SeedPick == "Rock"

\* play(user_choice) with the seeded random source
PlaySeeded(user_choice) ==
    /\ call' = [op |-> "play", arg |-> user_choice]
    /\ IF user_choice \notin Moves
       THEN Reject
       ELSE /\ Len(history) < MaxSeededRounds
            /\ PlayRound(user_choice,
                         CpuPick(difficulty, user_recent,
                                 SeedCoin, SeedPick, SeedPick))

\* A long session in Adaptive mode, best of 5, with the seeded random source:
\* the opponent's move is then a function of the window.
NextSeeded ==
    \/ \E m \in UserChoices : PlaySeeded(m)
    \/ ResetMatch
    \/ NewMatch

SpecSeeded == Init /\ [][NextSeeded]_vars

\* ----------------------------------------------------------------- claims

\* The step just taken was a call of play with one of the three moves.
PlayedRound == call'.op = "play" /\ call'.arg \in Moves

\* One if the round just appended to history had this result, else zero.
Scored(h, result) == IF h[Len(h)].result = result THEN 1 ELSE 0

MatchFieldsZero ==
    /\ user_score = 0
    /\ cpu_score = 0
    /\ tie_count = 0
    /\ rounds = 0
    /\ curr_streak = 0

\* C1 as stated: once a round has made a score reach targetWins, a further
\* play call is rejected (no round resolved, no counter changed) until
\* resetMatch is called.
C1_RejectedAfterConclusion ==
    [][(/\ call.op = "play"
        /\ call.arg \in Moves
        /\ match_complete.shown
        /\ call'.op = "play")
       => UNCHANGED <<matchVars, sessionVars>>]_vars

\* C1 as amended: the play call whose round leaves a score at or above
\* targetWins shows the match-complete dialog and resets the match before it
\* returns; every play call with a valid move resolves a round, so the next
\* one starts a new match without any resetMatch call.
C1_ConcludesAndResets ==
    [][PlayedRound =>
        LET us == user_score + Scored(history', "Win")
            cs == cpu_score + Scored(history', "Lose")
        IN  /\ Len(history') = Len(history) + 1
            /\ match_complete'.shown = (us >= target_wins \/ cs >= target_wins)
            /\ match_complete'.shown => MatchFieldsZero'
            /\ ~match_complete'.shown => rounds' = rounds + 1]_vars

\* Two rounds in a row each concluded a best-of-1 match: the second was
\* accepted right after the first had concluded.
C1_Witness ==
    /\ call.op = "play"
    /\ call.arg \in Moves
    /\ target_wins = 1
    /\ Len(history) = 2
    /\ history[1].result = "Win"
    /\ history[2].result = "Lose"
    /\ match_complete.shown
    /\ match_complete.you = 0
    /\ match_complete.cpu = 1
    /\ best_user_streak = 1
    /\ MatchFieldsZero

\* C2 as stated: between operations, humanScore <= targetWins and
\* opponentScore <= targetWins.
C2_ScoresWithinTarget ==
    /\ user_score <= target_wins
    /\ cpu_score <= target_wins

\* C3 as stated: when the match-conclusion check fires the two scores differ
\* and the reported winner is the side with the strictly greater score.
C3_DecisiveWinner ==
    match_complete.shown =>
        /\ match_complete.you # match_complete.cpu
        /\ match_complete.winner = "You"
               <=> match_complete.you > match_complete.cpu
        /\ match_complete.winner = "Computer"
               <=> match_complete.cpu > match_complete.you

\* C4: roundsPlayed = humanScore + opponentScore + tieCount in every state,
\* and an accepted round adds one to roundsPlayed and to exactly the counter
\* of its outcome (seen in the match-complete dialog when the round ends the
\* match and the counters are cleared).
C4_RoundsAreCounted ==
    /\ [](rounds = user_score + cpu_score + tie_count)
    /\ [][PlayedRound =>
            IF match_complete'.shown
            THEN /\ match_complete'.you = user_score + Scored(history', "Win")
                 /\ match_complete'.cpu = cpu_score + Scored(history', "Lose")
            ELSE /\ rounds' = rounds + 1
                 /\ user_score' = user_score + Scored(history', "Win")
                 /\ cpu_score' = cpu_score + Scored(history', "Lose")
                 /\ tie_count' = tie_count + Scored(history', "Tie")
                 /\ Scored(history', "Win") + Scored(history', "Lose")
                        + Scored(history', "Tie") = 1]_vars

\* A match in progress with a win, a loss and a tie counted.
C4_Witness ==
    /\ call.op = "play"
    /\ rounds = 3
    /\ user_score = 1
    /\ cpu_score = 1
    /\ tie_count = 1

\* The outcome table of the three-move game, written out pair by pair.
HumanWins == {<<"Rock", "Scissors">>, <<"Scissors", "Paper">>, <<"Paper", "Rock">>}

Outcome(human, opponent) ==
    IF human = opponent THEN "Tie"
    ELSE IF <<human, opponent>> \in HumanWins THEN "Win" ELSE "Lose"

Opposite(result) ==
    CASE result = "Win" -> "Lose"
      [] result = "Lose" -> "Win"
      [] OTHER -> "Tie"

\* C5: the outcome is defined on all nine pairs: Tie iff the moves are equal,
\* Win iff the human move beats the opponent's (Rock > Scissors > Paper >
\* Rock), else Lose; outcome(a,b) and outcome(b,a) are opposite, or both Tie;
\* and every round in history carries the outcome of its two moves.
C5_OutcomeTable ==
    /\ \A a \in Moves, b \in Moves :
           /\ Decide(a, b) \in {"Win", "Lose", "Tie"}
           /\ Decide(a, b) = Outcome(a, b)
           /\ Decide(b, a) = Opposite(Decide(a, b))
    /\ \A i \in 1..Len(history) :
           /\ history[i].result = Outcome(history[i].user, history[i].cpu)
           /\ Decide(history[i].cpu, history[i].user)
                  = Opposite(history[i].result)

\* Random mode, human Rock three times against Rock, Paper, Scissors:
\* Tie, Lose, Win, and the counters 1, 1, 1 of 3.
C5_Witness ==
    /\ difficulty = "Random"
    /\ Len(history) = 3
    /\ \A i \in 1..3 : history[i].user = "Rock" /\ history[i].cpu = CHOICES[i]
    /\ history[1].result = "Tie"
    /\ history[2].result = "Lose"
    /\ history[3].result = "Win"
    /\ user_score = 1
    /\ cpu_score = 1
    /\ tie_count = 1
    /\ rounds = 3

\* C6: a play call whose move is not Rock, Paper or Scissors leaves the whole
\* state as it was: scores, ties, rounds, streaks, window, history, badges.
C6_InvalidMoveChangesNothing ==
    [][(call'.op = "play" /\ call'.arg \notin Moves)
       => UNCHANGED <<appVars, dialogVars>>]_vars

\* An unrecognised move was played in the middle of a match.
C6_Witness ==
    /\ call.op = "play"
    /\ call.arg \notin Moves
    /\ rounds = 2
    /\ curr_streak = 2
    /\ achievements = {"First Win"}

\* C7 as stated: setBestOf with a value <= 0 is rejected and leaves bestOf
\* and targetWins as they were.
C7_NonPositiveRejected ==
    [][(call'.op = "bestof" /\ call'.arg <= 0)
       => UNCHANGED <<best_of, target_wins>>]_vars

\* The spinbox's range (from_=1, to=21).
SpinFrom == 1

SpinTo == 21

IsOdd(n) == \E k \in (-n - 1)..(n + 1) : n = 2 * k + 1

\* C8: for positive n, setBestOf(n) stores n when n is odd and n + 1 when n
\* is even, and targetWins = floor(stored / 2) + 1; setBestOf(4) gives 5 and
\* 3, setBestOf(7) gives 4; the stored bestOf is odd in every state.
C8_BestOfCoercion ==
    /\ [](IsOdd(best_of) /\ 2 * target_wins = best_of + 1)
    /\ [][call'.op = "bestof" =>
            LET n == call'.arg
            IN  /\ n > 0
                /\ best_of' = IF IsOdd(n) THEN n ELSE n + 1
                /\ 2 * target_wins' = best_of' + 1
                /\ n = 4 => best_of' = 5 /\ target_wins' = 3
                /\ n = 7 => target_wins' = 4]_vars
    /\ \A n \in SpinFrom..SpinTo :
           /\ ForceOdd(n) = IF IsOdd(n) THEN n ELSE n + 1
           /\ 2 * TargetWins(ForceOdd(n)) = ForceOdd(n) + 1

\* The even value 4 was stored as 5, target 3, while a match was in
\* progress.
C8_Witness ==
    /\ call.op = "bestof"
    /\ call.arg = 4
    /\ best_of = 5
    /\ target_wins = 3
    /\ user_score = 1
    /\ cpu_score = 1

\* C9: resetMatch and new_match are enabled in every state; afterwards the
\* scores, ties, rounds and streak are 0 and the listbox is empty, while the
\* best streaks, badges, history, window, bestOf, targetWins and difficulty
\* are as before.
C9_ResetFrame ==
    /\ [](ENABLED ResetMatch /\ ENABLED NewMatch)
    /\ [][call'.op \in {"reset_match", "new_match"} =>
            /\ MatchFieldsZero'
            /\ hist_box' = <<>>
            /\ UNCHANGED <<best_user_streak, best_cpu_streak, achievements,
                           history, user_recent>>
            /\ UNCHANGED <<best_of, target_wins, difficulty>>]_vars

\* A reset in the middle of a match: the last round did not end it, and its
\* streak, badge and history outlive the reset.
C9_Witness ==
    /\ call.op = "reset_match"
    /\ MatchFieldsZero
    /\ Len(history) = 2
    /\ ~match_complete.shown
    /\ best_user_streak = 2
    /\ achievements = {"First Win"}
    /\ difficulty = "Random"

\* The rounds of the match in progress: the last `rounds` records.
MatchRounds == SubSeq(history, Len(history) - rounds + 1, Len(history))

\* The consecutive same-side wins that end a sequence of rounds, signed by
\* side, and 0 when the last round was a tie.
ConsecutiveWins(h) ==
    IF h = <<>> \/ h[Len(h)].result = "Tie" THEN 0
    ELSE LET side == h[Len(h)].result
             run == CHOOSE k \in 1..Len(h) :
                        /\ \A i \in (Len(h) - k + 1)..Len(h) : h[i].result = side
                        /\ k < Len(h) => h[Len(h) - k].result # side
         IN  IF side = "Win" THEN run ELSE -run

\* C10 as stated: currentStreak is the number of immediately preceding
\* rounds of the match all won by the same side, signed by side, and 0
\* right after a tie.
C10_StreakCountsConsecutiveWins == curr_streak = ConsecutiveWins(MatchRounds)

\* The rounds of the match in progress that were not ties.
DecidedRounds == {i \in 1..Len(MatchRounds) : MatchRounds[i].result # "Tie"}

\* C11: |currentStreak| <= roundsPlayed, and once a non-tie round has been
\* played in the match, currentStreak is positive when the most recent
\* non-tie outcome was Win and negative when it was Lose.
C11_StreakSignAndBound ==
    /\ curr_streak <= rounds
    /\ -curr_streak <= rounds
    /\ DecidedRounds # {} =>
           LET last == CHOOSE i \in DecidedRounds :
                           \A j \in DecidedRounds : j <= i
           IN  /\ MatchRounds[last].result = "Win" => curr_streak > 0
               /\ MatchRounds[last].result = "Lose" => curr_streak < 0

\* A win, a loss and a tie in one match: the streak is the computer's.
C11_Witness ==
    /\ call.op = "play"
    /\ rounds = 3
    /\ Len(history) = 3
    /\ history[1].result = "Win"
    /\ history[2].result = "Lose"
    /\ history[3].result = "Tie"
    /\ curr_streak = -1

Larger(a, b) == IF a < b THEN b ELSE a

\* The value currentStreak takes in the round just played: what is left in
\* curr_streak, or, when the round ended the match and the streak was
\* cleared, the value the update rule gave it before.
StreakTaken ==
    IF ~match_complete'.shown THEN curr_streak'
    ELSE IF Scored(history', "Win") = 1
         THEN (IF curr_streak >= 0 THEN curr_streak + 1 ELSE 1)
    ELSE IF Scored(history', "Lose") = 1
         THEN (IF curr_streak <= 0 THEN curr_streak - 1 ELSE -1)
    ELSE curr_streak

\* C12: bestHumanStreak is the largest positive value currentStreak has
\* taken in the session and bestOpponentStreak the largest magnitude of a
\* negative one: both start at 0, a round raises each to the streak it
\* produced when that is larger, and no operation lowers them.
C12_BestStreaksAreMaxima ==
    /\ best_user_streak = 0 /\ best_cpu_streak = 0
    /\ [](/\ best_user_streak >= 0
          /\ best_cpu_streak >= 0
          /\ best_user_streak >= curr_streak
          /\ best_cpu_streak >= -curr_streak)
    /\ [][/\ best_user_streak' >= best_user_streak
          /\ best_cpu_streak' >= best_cpu_streak
          /\ IF PlayedRound
             THEN /\ best_user_streak' = Larger(best_user_streak, StreakTaken)
                  /\ best_cpu_streak' = Larger(best_cpu_streak, -StreakTaken)
             ELSE UNCHANGED <<best_user_streak, best_cpu_streak>>]_vars

\* Two wins and then a loss: the bests keep 2 and 1 while the streak is -1.
C12_Witness ==
    /\ call.op = "play"
    /\ best_user_streak = 2
    /\ best_cpu_streak = 1
    /\ curr_streak = -1

\* The names of the dialogs in a sequence.
Names(shown) == {shown[i] : i \in 1..Len(shown)}

\* C13: unlockedAchievements only grows and re-unlocking adds nothing (a
\* dialog is shown for a name exactly when the name is new); "First Win" is
\* in the set exactly when some round of the session was a Win, and "Hot
\* Streak (3)" exactly when currentStreak has been >= 3 after some round.
C13_AchievementsGrow ==
    /\ achievements = {}
    /\ [](/\ achievements \subseteq {"First Win", "Hot Streak (3)"}
          /\ "First Win" \in achievements
                 <=> \E i \in 1..Len(history) : history[i].result = "Win")
    /\ [][/\ achievements \subseteq achievements'
          /\ IF PlayedRound
             THEN /\ Names(unlock_shown') = achievements' \ achievements
                  /\ Len(unlock_shown') = Cardinality(Names(unlock_shown'))
                  /\ "Hot Streak (3)" \in achievements'
                         <=> \/ "Hot Streak (3)" \in achievements
                             \/ StreakTaken >= 3
             ELSE UNCHANGED achievements]_vars

\* The third win in a row of a best-of-5 match: it unlocks "Hot Streak (3)"
\* and ends the match, and the badges outlive the reset.
C13_Witness ==
    /\ call.op = "play"
    /\ achievements = {"First Win", "Hot Streak (3)"}
    /\ unlock_shown = <<"Hot Streak (3)">>
    /\ match_complete.shown
    /\ match_complete.you = 3
    /\ curr_streak = 0

\* C14: history is append-only over the session: it starts empty, every
\* accepted round appends exactly one record (human move, opponent move,
\* outcome) at the end, and every other step leaves it as it was.
C14_HistoryAppendOnly ==
    /\ history = <<>>
    /\ [][IF PlayedRound
          THEN \E c \in Moves :
                   history' = history \o <<[user |-> call'.arg, cpu |-> c,
                                            result |-> Outcome(call'.arg, c)]>>
          ELSE history' = history]_vars

\* Three rounds were played and recorded, and a new match was started
\* afterwards: the records are still there.
C14_Witness ==
    /\ call.op = "new_match"
    /\ Len(history) = 3
    /\ history[1] # history[2]
    /\ history[2] # history[3]
    /\ hist_box = <<>>
    /\ rounds = 0

\* C15: the streak after a round: on Win, +1 when it was >= 0 and 1
\* otherwise; on Lose, -1 when it was <= 0 and -1 otherwise; on Tie the
\* streak, both best streaks and both scores are left as they were (read
\* from the match-complete dialog when the round ended the match).
C15_StreakUpdateRule ==
    [][PlayedRound =>
        /\ (Scored(history', "Win") = 1 /\ ~match_complete'.shown) =>
               curr_streak' = IF curr_streak >= 0 THEN curr_streak + 1 ELSE 1
        /\ (Scored(history', "Lose") = 1 /\ ~match_complete'.shown) =>
               curr_streak' = IF curr_streak <= 0 THEN curr_streak - 1 ELSE -1
        /\ Scored(history', "Tie") = 1 =>
               /\ UNCHANGED <<best_user_streak, best_cpu_streak>>
               /\ IF match_complete'.shown
                  THEN /\ match_complete'.you = user_score
                       /\ match_complete'.cpu = cpu_score
                  ELSE UNCHANGED <<curr_streak, user_score, cpu_score>>]_vars

\* Two wins and then a tie: the streak of 2 has survived the tie.
C15_Witness ==
    /\ call.op = "play"
    /\ rounds = 3
    /\ history[3].result = "Tie"
    /\ curr_streak = 2
    /\ user_score = 2

\* How often a move occurs in a sequence of moves.
RECURSIVE Occurrences(_, _)
Occurrences(w, m) ==
    IF w = <<>> THEN 0
    ELSE (IF Head(w) = m THEN 1 ELSE 0) + Occurrences(Tail(w), m)

\* The most frequent move of a non-empty sequence, the first of Rock, Paper,
\* Scissors among equals.
MostFrequent(w) ==
    LET r == Occurrences(w, "Rock")
        p == Occurrences(w, "Paper")
        c == Occurrences(w, "Scissors")
    IN  IF r >= p /\ r >= c THEN "Rock"
        ELSE IF p >= c THEN "Paper" ELSE "Scissors"

\* The move that beats a move.
CounterOf(m) ==
    CASE m = "Rock" -> "Paper"
      [] m = "Paper" -> "Scissors"
      [] m = "Scissors" -> "Rock"

\* The human moves of the last (at most seven) rounds of the session.
LastHumanMoves ==
    LET k == Len(history)
        n == IF k < 7 THEN k ELSE 7
    IN  [i \in 1..n |-> history[k - n + i].user]

\* C16: recentHumanMoves is a FIFO window of capacity 7: after k accepted
\* rounds it holds the last min(k, 7) human moves in play order; and the
\* opponent's move of a round is chosen from the window as it was before
\* that round's human move was appended (with the seeded random source:
\* Rock on an empty window, else the counter of its most frequent move).
C16_WindowIsLastSeven ==
    /\ [](/\ Len(user_recent) <= 7
          /\ user_recent = LastHumanMoves)
    /\ [][PlayedRound =>
            history'[Len(history')].cpu =
                IF user_recent = <<>> THEN "Rock"
                ELSE CounterOf(MostFrequent(user_recent))]_vars

\* Eight rounds: the Scissors of the first round has left the window, which
\* holds rounds two to eight.
C16_Witness ==
    /\ Len(history) = 8
    /\ Len(user_recent) = 7
    /\ history[1].user = "Scissors"
    /\ \A i \in 2..8 : history[i].user # "Scissors"
    /\ user_recent[1] = "Rock"
    /\ user_recent[7] = "Paper"

\* C17: in Adaptive mode with a non-empty window the predicted move is the
\* most frequent one, the first of Rock, Paper, Scissors among equals; the
\* counter is the move that beats it, whatever the fallback draw; the pick
\* is that counter when the coin falls below 0.7 and the random draw
\* otherwise; in Random mode or on an empty window it is the random draw.
C17_AdaptivePick ==
    /\ \A m \in Moves, fallback \in Moves : CounterTo(m, fallback) = CounterOf(m)
    /\ user_recent # <<>> => Predicted(user_recent) = MostFrequent(user_recent)
    /\ \A pick \in Moves, fallback \in Moves :
           /\ \A coin \in BOOLEAN :
                  CpuPick("Random", user_recent, coin, pick, fallback) = pick
           /\ CpuPick("Adaptive", user_recent, FALSE, pick, fallback) = pick
    /\ \A pick \in Moves :
           CpuPick("Adaptive", user_recent, TRUE, pick, BEATS[pick]) =
               IF user_recent = <<>> THEN pick
               ELSE CounterOf(MostFrequent(user_recent))
    /\ CpuPicks("Random", user_recent) = Moves

\* After Scissors and Rock the window is tied; Rock is predicted and the
\* third round's opponent move is Paper.
C17_Witness ==
    /\ call.op = "play"
    /\ user_recent = <<"Scissors", "Rock", "Scissors">>
    /\ Len(history) = 3
    /\ history[3].cpu = "Paper"

\* C20: resetMatch, new_match and the reset at the end of a match leave
\* recentHumanMoves alone, so the first round of the next match in Adaptive
\* mode is predicted from the earlier moves (with the seeded random source
\* the opponent plays the counter of their most frequent move).
C20_WindowOutlivesMatch ==
    [][/\ call'.op \in {"reset_match", "new_match"} => UNCHANGED user_recent
       /\ (PlayedRound /\ match_complete'.shown) =>
              /\ user_recent' # <<>>
              /\ user_recent'[Len(user_recent')] = call'.arg
              /\ \A i \in 1..(Len(user_recent') - 1) :
                     user_recent'[i] =
                         user_recent[i + Len(user_recent) + 1 - Len(user_recent')]
       /\ (PlayedRound /\ rounds = 0 /\ user_recent # <<>>) =>
              history'[Len(history')].cpu = CounterOf(MostFrequent(user_recent))]_vars

\* Rock five times: the first match ends 0-3 in round four, and in round
\* five, the first of the next match, the opponent again plays Paper.
C20_Witness ==
    /\ call.op = "play"
    /\ Len(history) = 5
    /\ \A i \in 1..5 : history[i].user = "Rock"
    /\ history[4].result = "Lose"
    /\ history[5].cpu = "Paper"
    /\ user_recent = <<"Rock", "Rock", "Rock", "Rock", "Rock">>
    /\ rounds = 1
    /\ cpu_score = 1

C19_StreakWithinScore ==
    /\ [](/\ curr_streak > 0 => curr_streak <= user_score
          /\ curr_streak < 0 => -curr_streak <= cpu_score)
    /\ [][("Hot Streak (3)" \in achievements' /\ "Hot Streak (3)" \notin achievements)
             => target_wins > 2]_vars

====
